---- MODULE Spec2Model ----
(***************************************************************************)
(* A model of vcflib's variant filter engine as declared in src/Variant.h: *)
(* the RuleToken helpers (priority, associativity, token classes,          *)
(* convert), the VariantFilter operations (compile, passes,                *)
(* removeFilteredGenotypes) and the genotype decomposition utilities.      *)
(*                                                                         *)
(* Strings that the program scans character by character (filter specs,    *)
(* lexemes, field keys, raw field values, genotype strings) are sequences  *)
(* of one-character strings.  Doubles are exact rationals [n, d].          *)
(***************************************************************************)
EXTENDS Integers, Sequences, FiniteSets, TLC

VARIABLES
    tellgAtEof,   \* what the build's istream::tellg() answers once eofbit is set
    running,      \* FALSE once the process has called exit()
    var,          \* the Variant record the caller holds
    filter,       \* the VariantFilter the caller holds, or NoFilter
    call,         \* the last call made by the caller
    ret,          \* what that call returned
    genotype,     \* the genotype string handed to decomposeGenotype
    decomposed    \* the map<int,int> decomposeGenotype returned

vars == <<tellgAtEof, running, var, filter, call, ret, genotype, decomposed>>

----------------------------------------------------------------------------
(* Bounds of the model. *)

MaxSpecTokens == 4
MaxPloidy == 3

----------------------------------------------------------------------------
(* Program constants. *)

INDEX_NONE == -1
NULL_ALLELE_zero == 1 - 1
NULL_ALLELE == -1

FIELD_FLOAT == "FIELD_FLOAT"
FIELD_INTEGER == "FIELD_INTEGER"
FIELD_BOOL == "FIELD_BOOL"
FIELD_STRING == "FIELD_STRING"
FIELD_UNKNOWN == "FIELD_UNKNOWN"
VariantFieldType == {FIELD_FLOAT, FIELD_INTEGER, FIELD_BOOL, FIELD_STRING, FIELD_UNKNOWN}

OPERAND == "OPERAND"
NUMBER == "NUMBER"
BOOLEAN_VARIABLE == "BOOLEAN_VARIABLE"
NUMERIC_VARIABLE == "NUMERIC_VARIABLE"
STRING_VARIABLE == "STRING_VARIABLE"
AND_OPERATOR == "AND_OPERATOR"
OR_OPERATOR == "OR_OPERATOR"
ADD_OPERATOR == "ADD_OPERATOR"
SUBTRACT_OPERATOR == "SUBTRACT_OPERATOR"
MULTIPLY_OPERATOR == "MULTIPLY_OPERATOR"
DIVIDE_OPERATOR == "DIVIDE_OPERATOR"
NOT_OPERATOR == "NOT_OPERATOR"
EQUAL_OPERATOR == "EQUAL_OPERATOR"
GREATER_THAN_OPERATOR == "GREATER_THAN_OPERATOR"
LESS_THAN_OPERATOR == "LESS_THAN_OPERATOR"
LEFT_PARENTHESIS == "LEFT_PARENTHESIS"
RIGHT_PARENTHESIS == "RIGHT_PARENTHESIS"

RuleTokenType ==
    { OPERAND, NUMBER, BOOLEAN_VARIABLE, NUMERIC_VARIABLE, STRING_VARIABLE,
      AND_OPERATOR, OR_OPERATOR, ADD_OPERATOR, SUBTRACT_OPERATOR,
      MULTIPLY_OPERATOR, DIVIDE_OPERATOR, NOT_OPERATOR, EQUAL_OPERATOR,
      GREATER_THAN_OPERATOR, LESS_THAN_OPERATOR, LEFT_PARENTHESIS,
      RIGHT_PARENTHESIS }

SAMPLE == "SAMPLE"
RECORD == "RECORD"
VariantFilterType == {SAMPLE, RECORD}

----------------------------------------------------------------------------
(* Doubles, as exact rationals in lowest terms with a positive denominator. *)

Abs(x) == IF x < 0 THEN -x ELSE x

RECURSIVE GCD(_, _)
GCD(a, b) == IF b = 0 THEN a ELSE GCD(b, a % b)

Rat(n, d) ==
    LET g == GCD(Abs(n), Abs(d))
        s == IF d < 0 THEN -1 ELSE 1
    IN  [n |-> (s * n) \div g, d |-> (s * d) \div g]

RZero == [n |-> 0, d |-> 1]
RInt(k) == [n |-> k, d |-> 1]
RAdd(a, b) == Rat(a.n * b.d + b.n * a.d, a.d * b.d)
RSub(a, b) == Rat(a.n * b.d - b.n * a.d, a.d * b.d)
RMul(a, b) == Rat(a.n * b.n, a.d * b.d)
RDiv(a, b) == Rat(a.n * b.d, a.d * b.n)
RLess(a, b) == a.n * b.d < b.n * a.d

RECURSIVE Pow10(_)
Pow10(k) == IF k = 0 THEN 1 ELSE 10 * Pow10(k - 1)

----------------------------------------------------------------------------
(* Characters. *)

DigitChars == <<"0", "1", "2", "3", "4", "5", "6", "7", "8", "9">>
IsDigit(c) == \E i \in 1..10 : DigitChars[i] = c
DigitVal(c) == (CHOOSE i \in 1..10 : DigitChars[i] = c) - 1

\* the number of digit characters of s from position i on
RECURSIVE DigitRun(_, _)
DigitRun(s, i) ==
    IF i <= Len(s) /\ IsDigit(s[i]) THEN 1 + DigitRun(s, i + 1) ELSE 0

\* the value of the digits s[i .. i+k-1] read as a decimal integer
RECURSIVE DigitsValue(_, _, _)
DigitsValue(s, i, k) ==
    IF k = 0 THEN 0
    ELSE 10 * DigitsValue(s, i, k - 1) + DigitVal(s[i + k - 1])

isOperatorChar(c) ==
    c \in {"!", "&", "|", "=", ">", "<", "*", "/", "+", "-"}

isParanChar(c) == c \in {"(", ")"}

isSpaceChar(c) == c = " "

----------------------------------------------------------------------------
(* convert<double>: `iss >> r` followed by the test                         *)
(* (iss.fail() || iss.tellg() != s.size()).                                 *)
(*                                                                          *)
(* The extraction reads the longest prefix digits [. digits]; it sets       *)
(* failbit when that prefix holds no digit, and eofbit when it ran into the *)
(* end of the string.  tellg() answers -1 when failbit is set.  With eofbit *)
(* set (and failbit clear) the answer depends on the library the program is *)
(* built against: a C++98 tellg() answers the read position; a tellg() that *)
(* first constructs a sentry (C++11, current libstdc++ and libc++) finds    *)
(* the stream not good, sets failbit and answers -1.                        *)

Extract(s) ==
    LET intLen == DigitRun(s, 1)
        hasDot == intLen + 1 <= Len(s) /\ s[intLen + 1] = "."
        fracLen == IF hasDot THEN DigitRun(s, intLen + 2) ELSE 0
        used == intLen + (IF hasDot THEN 1 ELSE 0) + fracLen
    IN  [ fail |-> intLen + fracLen = 0,
          eof |-> used = Len(s),
          used |-> used,
          r |-> Rat(DigitsValue(s, 1, intLen) * Pow10(fracLen)
                      + DigitsValue(s, intLen + 2, fracLen), Pow10(fracLen)) ]

tellg(x) ==
    IF x.fail THEN -1
    ELSE IF x.eof /\ tellgAtEof = "minus_one" THEN -1
    ELSE x.used

convert(s) ==
    LET x == Extract(s)
    IN  [ ok |-> ~(x.fail \/ tellg(x) # Len(s)), r |-> x.r ]

----------------------------------------------------------------------------
(* RuleToken and the inline helpers of the header. *)

\* RuleToken(void): type(BOOLEAN_VARIABLE), state(false).  The members the
\* constructor leaves unset (value, number, str, isVariable) are never read
\* before they are written; they are given fixed values here.
DefaultToken ==
    [ type |-> BOOLEAN_VARIABLE, value |-> <<>>, number |-> RZero,
      str |-> <<>>, state |-> FALSE, isVariable |-> FALSE ]

\* [exit, value]: the value returned, or exit when the default branch prints
\* "invalid token type" and calls exit(1)
priority(token) ==
    CASE token.type = MULTIPLY_OPERATOR -> [exit |-> FALSE, value |-> 8]
      [] token.type = DIVIDE_OPERATOR -> [exit |-> FALSE, value |-> 8]
      [] token.type = ADD_OPERATOR -> [exit |-> FALSE, value |-> 7]
      [] token.type = SUBTRACT_OPERATOR -> [exit |-> FALSE, value |-> 7]
      [] token.type = NOT_OPERATOR -> [exit |-> FALSE, value |-> 6]
      [] token.type = EQUAL_OPERATOR -> [exit |-> FALSE, value |-> 5]
      [] token.type = GREATER_THAN_OPERATOR -> [exit |-> FALSE, value |-> 5]
      [] token.type = LESS_THAN_OPERATOR -> [exit |-> FALSE, value |-> 5]
      [] token.type = AND_OPERATOR -> [exit |-> FALSE, value |-> 4]
      [] token.type = OR_OPERATOR -> [exit |-> FALSE, value |-> 3]
      [] token.type = LEFT_PARENTHESIS -> [exit |-> FALSE, value |-> 0]
      [] token.type = RIGHT_PARENTHESIS -> [exit |-> FALSE, value |-> 0]
      [] OTHER -> [exit |-> TRUE, value |-> 0]

isRightAssociative(token) ==
    token.type = NOT_OPERATOR \/ token.type = LEFT_PARENTHESIS

isLeftAssociative(token) == ~isRightAssociative(token)

isLeftParenthesis_wrongTag(token) == token.type = RIGHT_PARENTHESIS

isLeftParenthesis(token) == token.type = LEFT_PARENTHESIS

isRightParenthesis(token) == token.type = RIGHT_PARENTHESIS

isOperand(token) ==
    token.type \in { OPERAND, NUMBER, NUMERIC_VARIABLE, STRING_VARIABLE,
                     BOOLEAN_VARIABLE }

isOperator(token) ==
    token.type \in { AND_OPERATOR, OR_OPERATOR, NOT_OPERATOR, EQUAL_OPERATOR,
                     GREATER_THAN_OPERATOR, LESS_THAN_OPERATOR,
                     MULTIPLY_OPERATOR, DIVIDE_OPERATOR, ADD_OPERATOR,
                     SUBTRACT_OPERATOR }

isNumeric(token) == token.type = NUMERIC_VARIABLE

isString(token) == token.type = STRING_VARIABLE

isBoolean_orNumeric(token) ==
    token.type = BOOLEAN_VARIABLE \/ token.type = NUMERIC_VARIABLE

isBoolean(token) == token.type = BOOLEAN_VARIABLE

isVariable(token) == isNumeric(token) \/ isString(token) \/ isBoolean(token)

----------------------------------------------------------------------------
(* The Filter Tokenizer: RuleToken(token, variables) and                    *)
(* tokenizeFilterSpec.                                                      *)

OperatorType(c) ==
    CASE c = "!" -> NOT_OPERATOR
      [] c = "&" -> AND_OPERATOR
      [] c = "|" -> OR_OPERATOR
      [] c = "=" -> EQUAL_OPERATOR
      [] c = ">" -> GREATER_THAN_OPERATOR
      [] c = "<" -> LESS_THAN_OPERATOR
      [] c = "+" -> ADD_OPERATOR
      [] c = "-" -> SUBTRACT_OPERATOR
      [] c = "*" -> MULTIPLY_OPERATOR
      [] c = "/" -> DIVIDE_OPERATOR
      [] c = "(" -> LEFT_PARENTHESIS
      [] c = ")" -> RIGHT_PARENTHESIS

VariableType(fieldType) ==
    CASE fieldType = FIELD_BOOL -> BOOLEAN_VARIABLE
      [] fieldType \in {FIELD_FLOAT, FIELD_INTEGER} -> NUMERIC_VARIABLE
      [] fieldType \in {FIELD_STRING, FIELD_UNKNOWN} -> STRING_VARIABLE

NoError == "none"
UnrecognizedOperand == "unrecognized operand"
UnbalancedParentheses == "unbalanced parentheses"

\* one token from one lexeme: [err, tok]
RuleToken(tokenstr, variables) ==
    IF Len(tokenstr) = 1
       /\ (isOperatorChar(tokenstr[1]) \/ isParanChar(tokenstr[1]))
    THEN [ err |-> NoError,
           tok |-> [DefaultToken EXCEPT !.type = OperatorType(tokenstr[1]),
                                        !.value = tokenstr] ]
    ELSE IF tokenstr \in DOMAIN variables
    THEN [ err |-> NoError,
           tok |-> [DefaultToken EXCEPT !.type = VariableType(variables[tokenstr]),
                                        !.value = tokenstr,
                                        !.isVariable = TRUE] ]
    ELSE LET c == convert(tokenstr)
         IN  IF c.ok
             THEN [ err |-> NoError,
                    tok |-> [DefaultToken EXCEPT !.type = NUMBER,
                                                 !.value = tokenstr,
                                                 !.number = c.r] ]
             ELSE [ err |-> UnrecognizedOperand, tok |-> DefaultToken ]

Flush(acc, cur) == IF cur = <<>> THEN acc ELSE Append(acc, cur)

\* the lexemes of s from position i on; cur is the operand run being read
RECURSIVE Lexemes(_, _, _, _)
Lexemes(s, i, cur, acc) ==
    IF i > Len(s) THEN Flush(acc, cur)
    ELSE IF isSpaceChar(s[i]) THEN Lexemes(s, i + 1, <<>>, Flush(acc, cur))
    ELSE IF isOperatorChar(s[i]) \/ isParanChar(s[i])
         THEN Lexemes(s, i + 1, <<>>, Append(Flush(acc, cur), <<s[i]>>))
    ELSE Lexemes(s, i + 1, Append(cur, s[i]), acc)

RECURSIVE Classify(_, _, _, _)
Classify(lexemes, i, acc, variables) ==
    IF i > Len(lexemes) THEN [err |-> NoError, tokens |-> acc]
    ELSE LET t == RuleToken(lexemes[i], variables)
         IN  IF t.err # NoError THEN [err |-> t.err, tokens |-> <<>>]
             ELSE Classify(lexemes, i + 1, Append(acc, t.tok), variables)

tokenizeFilterSpec(filterspec, variables) ==
    Classify(Lexemes(filterspec, 1, <<>>, <<>>), 1, <<>>, variables)

----------------------------------------------------------------------------
(* The Filter Parser: infix tokens to the evaluation sequence.  The         *)
(* operator stack is a sequence whose last element is the top.              *)

Top(stack) == stack[Len(stack)]
Pop(stack) == SubSeq(stack, 1, Len(stack) - 1)

isParenthesis(token) == isLeftParenthesis(token) \/ isRightParenthesis(token)

\* step 3: pop to the output until a left parenthesis is popped
RECURSIVE PopToLeftParenthesis(_, _)
PopToLeftParenthesis(ops, out) ==
    IF ops = <<>> THEN [err |-> UnbalancedParentheses, ops |-> ops, out |-> out]
    ELSE IF isLeftParenthesis(Top(ops))
         THEN [err |-> NoError, ops |-> Pop(ops), out |-> out]
    ELSE PopToLeftParenthesis(Pop(ops), Append(out, Top(ops)))

\* step 4: pop the operators that bind at least as tightly as op
RECURSIVE PopTighter(_, _, _)
PopTighter(op, ops, out) ==
    IF ops # <<>> /\ ~isParenthesis(Top(ops))
       /\ (priority(Top(ops)).value > priority(op).value
           \/ (priority(Top(ops)).value = priority(op).value
               /\ isLeftAssociative(op)))
    THEN PopTighter(op, Pop(ops), Append(out, Top(ops)))
    ELSE [ops |-> ops, out |-> out]

\* step 5: pop what is left; a parenthesis left over is an error
RECURSIVE Drain(_, _)
Drain(ops, out) ==
    IF ops = <<>> THEN [err |-> NoError, rules |-> out]
    ELSE IF isParenthesis(Top(ops))
         THEN [err |-> UnbalancedParentheses, rules |-> <<>>]
    ELSE Drain(Pop(ops), Append(out, Top(ops)))

RECURSIVE Shunt(_, _, _, _)
Shunt(tokens, i, ops, out) ==
    IF i > Len(tokens) THEN Drain(ops, out)
    ELSE LET t == tokens[i]
         IN  IF isOperand(t) THEN Shunt(tokens, i + 1, ops, Append(out, t))
             ELSE IF isLeftParenthesis(t)
                  THEN Shunt(tokens, i + 1, Append(ops, t), out)
             ELSE IF isRightParenthesis(t)
                  THEN LET r == PopToLeftParenthesis(ops, out)
                       IN  IF r.err # NoError
                           THEN [err |-> r.err, rules |-> <<>>]
                           ELSE Shunt(tokens, i + 1, r.ops, r.out)
             ELSE LET r == PopTighter(t, ops, out)
                  IN  Shunt(tokens, i + 1, Append(r.ops, t), r.out)

NoFilter == [spec |-> <<>>, type |-> "none", status |-> "no filter",
             tokens |-> <<>>, rules |-> <<>>]

\* VariantFilter(filterspec, filtertype, variables)
VariantFilter(filterspec, filtertype, variables) ==
    LET t == tokenizeFilterSpec(filterspec, variables)
        p == Shunt(t.tokens, 1, <<>>, <<>>)
    IN  IF t.err # NoError
        THEN [spec |-> filterspec, type |-> filtertype, status |-> t.err,
              tokens |-> <<>>, rules |-> <<>>]
        ELSE [spec |-> filterspec, type |-> filtertype, status |-> p.err,
              tokens |-> t.tokens, rules |-> p.rules]

----------------------------------------------------------------------------
(* The Field Type Registry handed in by the header collaborator            *)
(* (VariantCallFile::infoTypes, infoCounts, formatTypes, formatCounts),     *)
(* and the Variant records of the model.                                    *)

ALLELE_NUMBER == -2
GENOTYPE_NUMBER == -1

kDP == <<"D", "P">>
kAF == <<"A", "F">>
kGT == <<"G", "T">>
kFT == <<"F", "T">>
kA == <<"A">>
kB == <<"B">>
kC == <<"C">>
kU == <<"U">>

infoTypes ==
    (kDP :> FIELD_INTEGER) @@ (kAF :> FIELD_FLOAT) @@ (kFT :> FIELD_STRING)
    @@ (kA :> FIELD_BOOL) @@ (kB :> FIELD_BOOL) @@ (kC :> FIELD_BOOL)
    @@ (kU :> FIELD_UNKNOWN)

infoCounts ==
    (kDP :> 1) @@ (kAF :> ALLELE_NUMBER) @@ (kFT :> 1)
    @@ (kA :> 0) @@ (kB :> 0) @@ (kC :> 0) @@ (kU :> 1)

formatTypes ==
    (kGT :> FIELD_STRING) @@ (kDP :> FIELD_INTEGER) @@ (kAF :> FIELD_FLOAT)

formatCounts == (kGT :> 1) @@ (kDP :> 1) @@ (kAF :> ALLELE_NUMBER)

\* the registry a filter is compiled against covers the INFO and FORMAT keys
variables == infoTypes @@ formatTypes

NoSample == ""

Variant(alt, flags, info, samples) ==
    [ sequenceName |-> "chr1", position |-> 100, id |-> "rs1", ref |-> "A",
      alt |-> alt, alleles |-> <<"A">> \o alt,
      altAlleleIndecies |-> [a \in {alt[i] : i \in 1..Len(alt)} |->
                               (CHOOSE i \in 1..Len(alt) : alt[i] = a) - 1],
      filter |-> "PASS", quality |-> 50,
      info |-> info, infoFlags |-> flags,
      format |-> <<kGT, kDP, kAF>>,
      samples |-> samples,
      sampleNames |-> <<"S1", "S2">>, outputSampleNames |-> <<"S1", "S2">> ]

SampleFields(gt, dp, af) == (kGT :> <<gt>>) @@ (kDP :> <<dp>>) @@ (kAF :> af)

Variants ==
    { Variant(<<"G", "T">>,
              (kA :> FALSE) @@ (kB :> TRUE) @@ (kC :> TRUE),
              (kDP :> << <<"1", "5">> >>) @@ (kFT :> << <<"q">> >>)
                @@ (kAF :> << <<"0", ".", "1">>, <<"0", ".", "9">> >>),
              ("S1" :> SampleFields(<<"0", "/", "1">>, <<"1", "5">>,
                                    << <<"0", ".", "1">>, <<"0", ".", "9">> >>))
              @@ ("S2" :> SampleFields(<<"1", "|", "2">>, <<"5">>,
                                    << <<"0", ".", "9">>, <<"0", ".", "9">> >>))),
      Variant(<<"G">>,
              (kA :> TRUE) @@ (kB :> FALSE) @@ (kC :> FALSE),
              (kDP :> << <<"5">> >>) @@ (kFT :> << <<"P">> >>)
                @@ (kAF :> << <<"0", ".", "9">> >>),
              ("S1" :> SampleFields(<<"1">>, <<"1", "5">>,
                                    << <<"0", ".", "9">> >>))
              @@ ("S2" :> SampleFields(<<"0", "/", "1", "/", "1">>, <<"5">>,
                                    << <<"0", ".", "1">> >>))),
      \* a record with a missing depth and an AF list shorter than its alts
      Variant(<<"G", "T">>,
              (kA :> TRUE) @@ (kB :> TRUE),
              (kDP :> << <<".">> >>) @@ (kFT :> << <<"P">> >>)
                @@ (kAF :> << <<"0", ".", "9">> >>),
              ("S1" :> SampleFields(<<".", "/", "1">>, <<".">>,
                                    << <<"0", ".", "9">>, <<"0", ".", "9">> >>))
              @@ ("S2" :> SampleFields(<<"1", "/", "1">>, <<"1", "5">>,
                                    << <<"0", ".", "9">> >>))) }

----------------------------------------------------------------------------
(* The typed accessors of the Variant record.  Each answers [err, ...].     *)

TypeMismatch == "type mismatch"
MalformedFilter == "malformed filter"
DivideByZero == "divide by zero"
ResolutionError == "resolution error"
DataError == "data error"

RECURSIVE Join(_)
Join(vals) ==
    IF vals = <<>> THEN <<>>
    ELSE IF Len(vals) = 1 THEN vals[1]
    ELSE vals[1] \o <<",">> \o Join(Tail(vals))

\* the stored value list of key: INFO without a sample, the sample's FORMAT
\* values with one
StoredValues(v, key, sample) ==
    IF sample = NoSample
    THEN IF key \in DOMAIN v.info
         THEN [err |-> NoError, vals |-> v.info[key]]
         ELSE [err |-> ResolutionError, vals |-> <<>>]
    ELSE IF sample \notin DOMAIN v.samples
         THEN [err |-> ResolutionError, vals |-> <<>>]
    ELSE IF key \notin DOMAIN v.samples[sample]
         THEN [err |-> ResolutionError, vals |-> <<>>]
    ELSE [err |-> NoError, vals |-> v.samples[sample][key]]

FieldCount(key, sample) ==
    IF sample = NoSample
    THEN (IF key \in DOMAIN infoCounts THEN infoCounts[key] ELSE 1)
    ELSE (IF key \in DOMAIN formatCounts THEN formatCounts[key] ELSE 1)

\* the value string at this index, or the stored list as a whole
getValueString(v, key, sample, index) ==
    LET Stored(s) ==
            IF s.err # NoError THEN [err |-> s.err, str |-> <<>>]
            ELSE IF index = INDEX_NONE \/ FieldCount(key, sample) # ALLELE_NUMBER
                 THEN [err |-> NoError, str |-> Join(s.vals)]
            ELSE IF index \in 0..(Len(s.vals) - 1)
                 THEN [err |-> NoError, str |-> s.vals[index + 1]]
            ELSE [err |-> ResolutionError, str |-> <<>>]
    IN  Stored(StoredValues(v, key, sample))

getValueFloat(v, key, sample, index) ==
    LET Parsed(s, x) ==
            IF s.err # NoError THEN [err |-> s.err, number |-> RZero]
            ELSE IF x.fail \/ x.used # Len(s.str)
                 THEN [err |-> DataError, number |-> RZero]
            ELSE [err |-> NoError, number |-> x.r]
        Read(s) == Parsed(s, Extract(s.str))
    IN  Read(getValueString(v, key, sample, index))

getValueBool(v, key, sample, index) ==
    IF sample = NoSample
    THEN IF key \in DOMAIN v.infoFlags
         THEN [err |-> NoError, state |-> v.infoFlags[key]]
         ELSE [err |-> ResolutionError, state |-> FALSE]
    ELSE LET Read(s) ==
                 IF s.err # NoError THEN [err |-> s.err, state |-> FALSE]
                 ELSE [err |-> NoError, state |-> s.str = <<"1">>]
         IN  Read(getValueString(v, key, sample, index))

getAlleleIndex(v, allele) ==
    IF allele \in DOMAIN v.altAlleleIndecies
    THEN [err |-> NoError, index |-> v.altAlleleIndecies[allele]]
    ELSE [err |-> ResolutionError, index |-> INDEX_NONE]

----------------------------------------------------------------------------
(* The Filter Evaluator. *)

\* a variable token resolved against the context; a Number is pushed as is
Resolve(token, v, sample, index) ==
    IF ~token.isVariable THEN [err |-> NoError, tok |-> token]
    ELSE IF isBoolean(token)
    THEN LET Set(r) == [err |-> r.err, tok |-> [token EXCEPT !.state = r.state]]
         IN  Set(getValueBool(v, token.value, sample, index))
    ELSE IF isNumeric(token)
    THEN LET Set(r) == [err |-> r.err, tok |-> [token EXCEPT !.number = r.number]]
         IN  Set(getValueFloat(v, token.value, sample, index))
    ELSE LET Set(r) == [err |-> r.err, tok |-> [token EXCEPT !.str = r.str]]
         IN  Set(getValueString(v, token.value, sample, index))

\* a Numeric operand: a Number literal or a resolved Numeric-Variable
isNumericOperand(token) == token.type = NUMBER \/ isNumeric(token)

CharOrder == <<",", ".", "/", "0", "1", "2", "3", "4", "5", "6", "7", "8", "9",
               "A", "B", "C", "D", "F", "G", "P", "T", "U", "q", "x", "|">>
CharRank(c) == CHOOSE i \in 1..Len(CharOrder) : CharOrder[i] = c

RECURSIVE StrLess(_, _)
StrLess(a, b) ==
    IF b = <<>> THEN FALSE
    ELSE IF a = <<>> THEN TRUE
    ELSE IF a[1] = b[1] THEN StrLess(Tail(a), Tail(b))
    ELSE CharRank(a[1]) < CharRank(b[1])

BooleanResult(b) == [DefaultToken EXCEPT !.state = b]
NumericResult(x) ==
    [DefaultToken EXCEPT !.type = NUMERIC_VARIABLE, !.number = x]

\* a binary operator applied to its left operand a and right operand b
Apply(op, a, b) ==
    IF op.type \in {ADD_OPERATOR, SUBTRACT_OPERATOR, MULTIPLY_OPERATOR,
                    DIVIDE_OPERATOR}
    THEN IF ~(isNumericOperand(a) /\ isNumericOperand(b))
         THEN [err |-> TypeMismatch, tok |-> DefaultToken]
         ELSE IF op.type = DIVIDE_OPERATOR /\ b.number.n = 0
              THEN [err |-> DivideByZero, tok |-> DefaultToken]
         ELSE [ err |-> NoError,
                tok |-> NumericResult(
                    CASE op.type = ADD_OPERATOR -> RAdd(a.number, b.number)
                      [] op.type = SUBTRACT_OPERATOR -> RSub(a.number, b.number)
                      [] op.type = MULTIPLY_OPERATOR -> RMul(a.number, b.number)
                      [] op.type = DIVIDE_OPERATOR -> RDiv(a.number, b.number)) ]
    ELSE IF op.type \in {EQUAL_OPERATOR, GREATER_THAN_OPERATOR,
                         LESS_THAN_OPERATOR}
    THEN IF isNumericOperand(a) /\ isNumericOperand(b)
         THEN [ err |-> NoError,
                tok |-> BooleanResult(
                    CASE op.type = EQUAL_OPERATOR -> a.number = b.number
                      [] op.type = GREATER_THAN_OPERATOR -> RLess(b.number, a.number)
                      [] op.type = LESS_THAN_OPERATOR -> RLess(a.number, b.number)) ]
         ELSE IF isString(a) /\ isString(b)
         THEN [ err |-> NoError,
                tok |-> BooleanResult(
                    CASE op.type = EQUAL_OPERATOR -> a.str = b.str
                      [] op.type = GREATER_THAN_OPERATOR -> StrLess(b.str, a.str)
                      [] op.type = LESS_THAN_OPERATOR -> StrLess(a.str, b.str)) ]
         ELSE [err |-> TypeMismatch, tok |-> DefaultToken]
    ELSE IF op.type \in {AND_OPERATOR, OR_OPERATOR}
    THEN IF isBoolean(a) /\ isBoolean(b)
         THEN [ err |-> NoError,
                tok |-> BooleanResult(
                    IF op.type = AND_OPERATOR THEN a.state /\ b.state
                    ELSE a.state \/ b.state) ]
         ELSE [err |-> TypeMismatch, tok |-> DefaultToken]
    ELSE [err |-> MalformedFilter, tok |-> DefaultToken]

\* the walk over the evaluation sequence with the operand stack `results`
RECURSIVE EvalRules(_, _, _, _, _, _)
EvalRules(rules, i, results, v, sample, index) ==
    IF i > Len(rules) THEN [err |-> NoError, results |-> results]
    ELSE LET token == rules[i]
         IN  IF isOperand(token)
             THEN LET Push(r) ==
                          IF r.err # NoError
                          THEN [err |-> r.err, results |-> results]
                          ELSE EvalRules(rules, i + 1, Append(results, r.tok),
                                         v, sample, index)
                  IN  Push(Resolve(token, v, sample, index))
             ELSE IF token.type = NOT_OPERATOR
             THEN IF results = <<>>
                  THEN [err |-> MalformedFilter, results |-> results]
                  ELSE IF ~isBoolean(Top(results))
                  THEN [err |-> TypeMismatch, results |-> results]
                  ELSE EvalRules(rules, i + 1,
                           Append(Pop(results),
                                  [Top(results) EXCEPT !.state = ~Top(results).state]),
                           v, sample, index)
             ELSE IF Len(results) < 2
                  THEN [err |-> MalformedFilter, results |-> results]
                  ELSE LET Push(r) ==
                               IF r.err # NoError
                               THEN [err |-> r.err, results |-> results]
                               ELSE EvalRules(rules, i + 1,
                                        Append(Pop(Pop(results)), r.tok),
                                        v, sample, index)
                       IN  Push(Apply(token, Top(Pop(results)), Top(results)))

Evaluate(f, v, sample, index) == EvalRules(f.rules, 1, <<>>, v, sample, index)

\* one evaluation's verdict: [err, value]
Verdict(f, v, sample, index) ==
    LET Final(e) ==
            IF e.err # NoError THEN [err |-> e.err, value |-> FALSE]
            ELSE IF Len(e.results) # 1
                 THEN [err |-> MalformedFilter, value |-> FALSE]
            ELSE IF ~isBoolean(e.results[1])
                 THEN [err |-> MalformedFilter, value |-> FALSE]
            ELSE [err |-> NoError, value |-> e.results[1].state]
    IN  Final(Evaluate(f, v, sample, index))

\* the verdicts at the alt-allele indices i .. Len(alt)-1, combined: the first
\* error, else whether every one is true
RECURSIVE AllAltsPass(_, _, _, _)
AllAltsPass(f, v, sample, i) ==
    IF i >= Len(v.alt) THEN [err |-> NoError, value |-> TRUE]
    ELSE LET Both(r, rest) ==
                 IF r.err # NoError THEN r
                 ELSE IF rest.err # NoError THEN rest
                 ELSE [err |-> NoError, value |-> r.value /\ rest.value]
         IN  Both(Verdict(f, v, sample, i), AllAltsPass(f, v, sample, i + 1))

\* bool passes(Variant& var, string& sample): a record filter is evaluated
\* once with no sample and no allele; a sample filter once per alt allele
passes(f, v, sample) ==
    IF f.type = RECORD THEN Verdict(f, v, NoSample, INDEX_NONE)
    ELSE AllAltsPass(f, v, sample, 0)

\* bool passes(Variant& var, string& sample, string& allele)
passesAllele(f, v, sample, allele) ==
    LET a == getAlleleIndex(v, allele)
    IN  IF a.err # NoError THEN [err |-> a.err, value |-> FALSE]
        ELSE Verdict(f, v, sample, a.index)

----------------------------------------------------------------------------
(* The Genotype Model. *)

isSeparator(c) == c \in {"/", "|"}

\* the elements of the genotype string between its separators
RECURSIVE SplitGenotype(_, _, _, _)
SplitGenotype(s, i, cur, acc) ==
    IF i > Len(s) THEN Append(acc, cur)
    ELSE IF isSeparator(s[i]) THEN SplitGenotype(s, i + 1, <<>>, Append(acc, cur))
    ELSE SplitGenotype(s, i + 1, Append(cur, s[i]), acc)

AlleleOf(element) ==
    IF element = <<".">> THEN [ok |-> TRUE, allele |-> NULL_ALLELE]
    ELSE IF element # <<>> /\ DigitRun(element, 1) = Len(element)
         THEN [ok |-> TRUE, allele |-> DigitsValue(element, 1, Len(element))]
    ELSE [ok |-> FALSE, allele |-> NULL_ALLELE]

EmptyGenotype == [a \in {} |-> 0]

decomposeGenotype(g) ==
    LET es == SplitGenotype(g, 1, <<>>, <<>>)
        as == [i \in 1..Len(es) |-> AlleleOf(es[i])]
    IN  IF \E i \in 1..Len(es) : ~as[i].ok THEN EmptyGenotype
        ELSE [a \in {as[i].allele : i \in 1..Len(es)} |->
                 Cardinality({i \in 1..Len(es) : as[i].allele = a})]

isHet(g) == Cardinality(DOMAIN g) > 1
isHom(g) == Cardinality(DOMAIN g) = 1
hasNonRef(g) == \E a \in DOMAIN g : a # 0 /\ a # NULL_ALLELE
isHomRef(g) == isHom(g) /\ 0 \in DOMAIN g
isHomNonRef(g) == isHom(g) /\ 0 \notin DOMAIN g /\ NULL_ALLELE \notin DOMAIN g
isNull(g) == NULL_ALLELE \in DOMAIN g

\* the genotype with every allele position replaced by the null marker
RECURSIVE AllMissing(_, _)
AllMissing(g, i) ==
    IF i > Len(g) THEN <<>>
    ELSE IF isSeparator(g[i]) THEN <<g[i]>> \o AllMissing(g, i + 1)
    ELSE IF i = 1 \/ isSeparator(g[i - 1]) THEN <<".">> \o AllMissing(g, i + 1)
    ELSE AllMissing(g, i + 1)

----------------------------------------------------------------------------
(* removeFilteredGenotypes: the samples the filter fails get the            *)
(* all-missing genotype; an evaluation error is returned and leaves the     *)
(* record as it was.                                                        *)

BlankGenotype(fields) == [fields EXCEPT ![kGT] = <<AllMissing(@[1], 1)>>]

removeFilteredGenotypes_blankAll(f, v) ==
    [ err |-> NoError,
      var |-> [v EXCEPT !.samples =
                  [s \in DOMAIN v.samples |-> BlankGenotype(v.samples[s])]] ]

removeFilteredGenotypes(f, v) ==
    LET First(failed) == CHOOSE i \in failed : \A j \in failed : i <= j
        Failed(verdict) ==
            {i \in 1..Len(v.sampleNames) : verdict[v.sampleNames[i]].err # NoError}
        Filtered(verdict, failed) ==
            IF failed # {}
            THEN [err |-> verdict[v.sampleNames[First(failed)]].err, var |-> v]
            ELSE [ err |-> NoError,
                   var |-> [v EXCEPT !.samples =
                             [s \in DOMAIN v.samples |->
                                IF verdict[s].value THEN v.samples[s]
                                ELSE BlankGenotype(v.samples[s])]] ]
        Given(verdict) == Filtered(verdict, Failed(verdict))
    IN  Given([s \in DOMAIN v.samples |-> passes(f, v, s)])

----------------------------------------------------------------------------
(* The inputs of the model. *)

\* a filter spec spelled from its lexemes: a space between two lexemes,
\* except after "(" and before ")"
RECURSIVE Spell(_)
Spell(lexemes) ==
    IF lexemes = <<>> THEN <<>>
    ELSE IF Len(lexemes) = 1 THEN lexemes[1]
    ELSE IF lexemes[1] = <<"(">> \/ lexemes[2] = <<")">>
         THEN lexemes[1] \o Spell(Tail(lexemes))
    ELSE lexemes[1] \o <<" ">> \o Spell(Tail(lexemes))

SeqsUpTo(S, n) == UNION {[1..k -> S] : k \in 0..n}

L(c) == <<c>>

\* the filter specs of the application specification
AppAtoms == {kDP, kAF, kFT, kA, <<"1", "0">>, L("0")}
AppOps == {L(">"), L("="), L("+"), L("/"), L("&")}
AppLexemeLists ==
    {<<>>} \cup {<<a>> : a \in AppAtoms \cup AppOps}
    \cup {<<L("!"), a>> : a \in AppAtoms}
    \cup {<<a, b>> : a \in AppAtoms, b \in AppAtoms \cup AppOps}
    \cup {<<a, o, b>> : a \in AppAtoms, o \in AppOps, b \in AppAtoms}
    \cup { <<kAF, L(">"), <<"0", ".", "5">> >>,
           <<kAF, L("<"), <<"0", ".", "5">> >>,
           <<kDP, L(">"), <<"1", "0">>, L("&"), kAF, L(">"), <<"0", ".", "5">> >> }
AppSpecs == {Spell(l) : l \in AppLexemeLists}

\* the filter specs of the compilation specification
CompileLexemes ==
    {L("1"), <<"3", "x">>, kA, kB, <<"F", "O", "O">>, L("&"), L("("), L(")")}
NumAtoms == {L("1"), L("2"), L("3")}
NumOps == {L("+"), L("-"), L("*"), L("/"), L(">"), L("<"), L("=")}
BoolAtoms == {kA, kB, kC}
BoolOps == {L("&"), L("|")}
Chains(atoms, ops) ==
    {<<a, o, b, p, c>> : a \in atoms, o \in ops, b \in atoms, p \in ops, c \in atoms}
GroupedLeft(atoms, ops) ==
    {<<L("("), l[1], l[2], l[3], L(")"), l[4], l[5]>> : l \in Chains(atoms, ops)}
GroupedRight(atoms, ops) ==
    {<<l[1], l[2], L("("), l[3], l[4], l[5], L(")")>> : l \in Chains(atoms, ops)}
Negated ==
    {<<L("!"), a, o, b>> : a \in BoolAtoms, o \in BoolOps, b \in BoolAtoms}
    \cup {<<a, o, L("!"), b>> : a \in BoolAtoms, o \in BoolOps, b \in BoolAtoms}
    \cup {<<L("!"), L("("), a, o, b, L(")")>> :
             a \in BoolAtoms, o \in BoolOps, b \in BoolAtoms}
    \cup {<<L("!"), L("!"), a>> : a \in BoolAtoms}
    \cup {<<L("!"), a, o, b>> : a \in NumAtoms, o \in NumOps, b \in NumAtoms}
Compared ==
    {<<a, o, b, p, c, q, d>> :
        a \in {L("1"), L("2")}, b \in {L("1"), L("2")}, c \in {L("1"), L("2")},
        d \in {L("1"), L("2")}, o \in {L(">"), L("=")}, q \in {L(">"), L("=")},
        p \in BoolOps}
CompileLexemeLists ==
    SeqsUpTo(CompileLexemes, MaxSpecTokens)
    \cup Chains(NumAtoms, NumOps) \cup Chains(BoolAtoms, BoolOps)
    \cup GroupedLeft(NumAtoms, NumOps) \cup GroupedLeft(BoolAtoms, BoolOps)
    \cup GroupedRight(NumAtoms, NumOps) \cup GroupedRight(BoolAtoms, BoolOps)
    \cup Negated \cup Compared
CompileSpecs == {Spell(l) : l \in CompileLexemeLists}

SampleArgs == {"S1", "S2", "S9"}
AlleleArgs == {"G", "T", "C"}

\* the genotype strings of the genotype specification
GenotypeElements == {L("0"), L("1"), L("2"), L("."), L("x"), <<>>}
RECURSIVE JoinGenotype(_, _)
JoinGenotype(elements, seps) ==
    IF Len(elements) = 1 THEN elements[1]
    ELSE elements[1] \o <<seps[1]>> \o JoinGenotype(Tail(elements), Tail(seps))
Genotypes ==
    {<<>>} \cup
    UNION { {JoinGenotype(e, s) : e \in [1..k -> GenotypeElements],
                                   s \in [1..(k - 1) -> {"/", "|"}]} :
            k \in 1..MaxPloidy }

----------------------------------------------------------------------------
(* The state machine. *)

Ret(err, value) == [err |-> err, value |-> value, number |-> 0]
Call(op, sample, allele) == [op |-> op, sample |-> sample, allele |-> allele]

Init ==
    /\ tellgAtEof \in {"position", "minus_one"}
    /\ running = TRUE
    /\ var \in Variants
    /\ filter = NoFilter
    /\ call = Call("none", NoSample, "")
    /\ ret = Ret(NoError, FALSE)
    /\ genotype = <<>>
    /\ decomposed = EmptyGenotype

\* the caller constructs a VariantFilter from one of the filter specs
Compile(filterspecs) ==
    /\ running
    /\ filter = NoFilter
    /\ \E filterspec \in filterspecs, filtertype \in VariantFilterType :
          filter' = VariantFilter(filterspec, filtertype, variables)
    /\ call' = Call("VariantFilter", NoSample, "")
    /\ ret' = Ret(filter'.status, FALSE)
    /\ UNCHANGED <<tellgAtEof, running, var, genotype, decomposed>>

\* the caller lets go of its filter, compiled or failed
Discard ==
    /\ running
    /\ filter # NoFilter
    /\ filter' = NoFilter
    /\ call' = Call("~VariantFilter", NoSample, "")
    /\ ret' = Ret(NoError, FALSE)
    /\ UNCHANGED <<tellgAtEof, running, var, genotype, decomposed>>

Passes_blanksFailed(sample) ==
    /\ running
    /\ filter.status = NoError
    /\ sample \in (IF filter.type = RECORD THEN {NoSample} ELSE SampleArgs)
    /\ LET Return(r) ==
               /\ ret' = Ret(r.err, r.value)
               /\ var' = IF r.err = NoError /\ ~r.value /\ sample \in DOMAIN var.samples
                         THEN [var EXCEPT !.samples[sample] = BlankGenotype(@)]
                         ELSE var
       IN  Return(passes(filter, var, sample))
    /\ call' = Call("passes", sample, "")
    /\ UNCHANGED <<tellgAtEof, running, filter, genotype, decomposed>>

\* passes(var, sample)
Passes(sample) ==
    /\ running
    /\ filter.status = NoError
    /\ sample \in (IF filter.type = RECORD THEN {NoSample} ELSE SampleArgs)
    /\ LET Return(r) == ret' = Ret(r.err, r.value)
       IN  Return(passes(filter, var, sample))
    /\ call' = Call("passes", sample, "")
    /\ UNCHANGED <<tellgAtEof, running, var, filter, genotype, decomposed>>

\* passes(var, sample, allele)
PassesAllele(sample, allele) ==
    /\ running
    /\ filter.status = NoError
    /\ filter.type = SAMPLE
    /\ LET Return(r) == ret' = Ret(r.err, r.value)
       IN  Return(passesAllele(filter, var, sample, allele))
    /\ call' = Call("passesAllele", sample, allele)
    /\ UNCHANGED <<tellgAtEof, running, var, filter, genotype, decomposed>>

\* removeFilteredGenotypes(var)
RemoveFilteredGenotypes ==
    /\ running
    /\ filter.status = NoError
    /\ filter.type = SAMPLE
    /\ LET Return(r) == var' = r.var /\ ret' = Ret(r.err, FALSE)
       IN  Return(removeFilteredGenotypes(filter, var))
    /\ call' = Call("removeFilteredGenotypes", NoSample, "")
    /\ UNCHANGED <<tellgAtEof, running, filter, genotype, decomposed>>

\* priority(token), asked by a caller that holds no filter: the default
\* branch of the switch ends the process
AskPriority(type) ==
    /\ running
    /\ filter = NoFilter
    /\ LET p == priority([DefaultToken EXCEPT !.type = type])
       IN  /\ running' = ~p.exit
           /\ ret' = [err |-> NoError, value |-> FALSE, number |-> p.value]
    /\ call' = Call("priority", NoSample, type)
    /\ UNCHANGED <<tellgAtEof, var, filter, genotype, decomposed>>

Next ==
    \/ Compile(AppSpecs)
    \/ Discard
    \/ \E s \in SampleArgs \cup {NoSample} : Passes(s)
    \/ \E s \in SampleArgs, a \in AlleleArgs : PassesAllele(s, a)
    \/ RemoveFilteredGenotypes
    \/ \E t \in RuleTokenType : AskPriority(t)

Spec == Init /\ [][Next]_vars

\* compilation and evaluation over the larger set of filter specs
NextCompile ==
    \/ Compile(CompileSpecs)
    \/ Discard
    \/ Passes(NoSample)

SpecCompile == Init /\ [][NextCompile]_vars

\* the genotype utilities, applied to each genotype string
InitGenotype ==
    /\ tellgAtEof \in {"position", "minus_one"}
    /\ running = TRUE
    /\ var \in Variants
    /\ filter = NoFilter
    /\ call = Call("none", NoSample, "")
    /\ ret = Ret(NoError, FALSE)
    /\ genotype \in Genotypes
    /\ decomposed = EmptyGenotype

DecomposeGenotype ==
    /\ running
    /\ call.op = "none"
    /\ decomposed' = decomposeGenotype(genotype)
    /\ call' = Call("decomposeGenotype", NoSample, "")
    /\ ret' = Ret(NoError, FALSE)
    /\ UNCHANGED <<tellgAtEof, running, var, filter, genotype>>

NextGenotype == DecomposeGenotype

SpecGenotype == InitGenotype /\ [][NextGenotype]_vars

----------------------------------------------------------------------------
(* The reference evaluation of an infix filter spec: a recursive descent    *)
(* over its lexemes under the precedence table, binary operators grouping   *)
(* to the left, NOT to the right, parentheses first.                        *)

VNum(x) == [kind |-> "num", n |-> x, b |-> FALSE, s |-> <<>>]
VBool(x) == [kind |-> "bool", n |-> RZero, b |-> x, s |-> <<>>]
VStr(x) == [kind |-> "str", n |-> RZero, b |-> FALSE, s |-> x]
VErr == [kind |-> "err", n |-> RZero, b |-> FALSE, s |-> <<>>]

IsDecimal(lexeme) ==
    /\ \A i \in 1..Len(lexeme) : IsDigit(lexeme[i]) \/ lexeme[i] = "."
    /\ \E i \in 1..Len(lexeme) : IsDigit(lexeme[i])
    /\ Cardinality({i \in 1..Len(lexeme) : lexeme[i] = "."}) <= 1

IsOperatorLexeme(lexeme) == Len(lexeme) = 1 /\ isOperatorChar(lexeme[1])
IsParenLexeme(lexeme) == Len(lexeme) = 1 /\ isParanChar(lexeme[1])
IsOperandLexeme(lexeme) == ~IsOperatorLexeme(lexeme) /\ ~IsParenLexeme(lexeme)

RefPrecedence(c) ==
    CASE c \in {"*", "/"} -> 8
      [] c \in {"+", "-"} -> 7
      [] c = "!" -> 6
      [] c \in {"=", ">", "<"} -> 5
      [] c = "&" -> 4
      [] c = "|" -> 3

RefAtom(lexeme, v) ==
    IF lexeme \in DOMAIN variables
    THEN CASE variables[lexeme] = FIELD_BOOL ->
                LET r == getValueBool(v, lexeme, NoSample, INDEX_NONE)
                IN  IF r.err # NoError THEN VErr ELSE VBool(r.state)
           [] variables[lexeme] \in {FIELD_FLOAT, FIELD_INTEGER} ->
                LET r == getValueFloat(v, lexeme, NoSample, INDEX_NONE)
                IN  IF r.err # NoError THEN VErr ELSE VNum(r.number)
           [] OTHER ->
                LET r == getValueString(v, lexeme, NoSample, INDEX_NONE)
                IN  IF r.err # NoError THEN VErr ELSE VStr(r.str)
    ELSE VNum(Extract(lexeme).r)

RefNot(a) == IF a.kind = "bool" THEN VBool(~a.b) ELSE VErr

RefApply(c, a, b) ==
    IF c \in {"+", "-", "*", "/"}
    THEN IF a.kind # "num" \/ b.kind # "num" THEN VErr
         ELSE IF c = "/" /\ b.n.n = 0 THEN VErr
         ELSE VNum(CASE c = "+" -> RAdd(a.n, b.n)
                     [] c = "-" -> RSub(a.n, b.n)
                     [] c = "*" -> RMul(a.n, b.n)
                     [] c = "/" -> RDiv(a.n, b.n))
    ELSE IF c \in {"=", ">", "<"}
    THEN IF a.kind = "num" /\ b.kind = "num"
         THEN VBool(CASE c = "=" -> a.n = b.n
                      [] c = ">" -> RLess(b.n, a.n)
                      [] c = "<" -> RLess(a.n, b.n))
         ELSE IF a.kind = "str" /\ b.kind = "str"
         THEN VBool(CASE c = "=" -> a.s = b.s
                      [] c = ">" -> StrLess(b.s, a.s)
                      [] c = "<" -> StrLess(a.s, b.s))
         ELSE VErr
    ELSE IF a.kind = "bool" /\ b.kind = "bool"
         THEN VBool(IF c = "&" THEN a.b /\ b.b ELSE a.b \/ b.b)
    ELSE VErr

RefFail == [ok |-> FALSE, pos |-> 0, val |-> VErr]

RECURSIVE RefParse(_, _, _, _)
RECURSIVE RefRest(_, _, _, _)

\* the expression of the given precedence level that starts at lexeme pos
RefParse(lexs, pos, level, v) ==
    IF level = 9
    THEN IF pos > Len(lexs) THEN RefFail
         ELSE IF lexs[pos] = <<"(">>
              THEN LET r == RefParse(lexs, pos + 1, 3, v)
                   IN  IF r.ok /\ r.pos <= Len(lexs) /\ lexs[r.pos] = <<")">>
                       THEN [r EXCEPT !.pos = r.pos + 1]
                       ELSE RefFail
         ELSE IF IsOperandLexeme(lexs[pos])
                 /\ (lexs[pos] \in DOMAIN variables \/ IsDecimal(lexs[pos]))
              THEN [ok |-> TRUE, pos |-> pos + 1, val |-> RefAtom(lexs[pos], v)]
         ELSE RefFail
    ELSE IF level = 6
    THEN IF pos <= Len(lexs) /\ lexs[pos] = <<"!">>
         THEN LET r == RefParse(lexs, pos + 1, 6, v)
              IN  IF r.ok THEN [r EXCEPT !.val = RefNot(r.val)] ELSE RefFail
         ELSE RefParse(lexs, pos, 7, v)
    ELSE RefRest(lexs, RefParse(lexs, pos, level + 1, v), level, v)

\* the operators of this level that follow the operand read so far
RefRest(lexs, left, level, v) ==
    IF ~left.ok THEN RefFail
    ELSE IF left.pos <= Len(lexs) /\ IsOperatorLexeme(lexs[left.pos])
            /\ lexs[left.pos] # <<"!">>
            /\ RefPrecedence(lexs[left.pos][1]) = level
         THEN LET right == RefParse(lexs, left.pos + 1, level + 1, v)
              IN  IF ~right.ok THEN RefFail
                  ELSE RefRest(lexs,
                               [ ok |-> TRUE, pos |-> right.pos,
                                 val |-> RefApply(lexs[left.pos][1], left.val,
                                                  right.val) ],
                               level, v)
    ELSE left

SpecLexemes(filterspec) == Lexemes(filterspec, 1, <<>>, <<>>)

SyntacticallyValid(filterspec, v) ==
    LET r == RefParse(SpecLexemes(filterspec), 1, 3, v)
    IN  r.ok /\ r.pos = Len(SpecLexemes(filterspec)) + 1

RefEval(filterspec, v) == RefParse(SpecLexemes(filterspec), 1, 3, v).val

\* what the walk over the compiled sequence leaves: the one operand on the
\* stack, or an error
StackValue(f, v) ==
    LET e == Evaluate(f, v, NoSample, INDEX_NONE)
    IN  IF f.status # NoError \/ e.err # NoError \/ Len(e.results) # 1 THEN VErr
        ELSE IF isNumericOperand(e.results[1]) THEN VNum(e.results[1].number)
        ELSE IF isString(e.results[1]) THEN VStr(e.results[1].str)
        ELSE VBool(e.results[1].state)

----------------------------------------------------------------------------
(* Properties of the Filter Tokenizer and the Filter Parser                 *)
(* (checked under SpecCompile).                                             *)

OnePlusTwoTimesThree == Spell(<<L("1"), L("+"), L("2"), L("*"), L("3")>>)
OnePlusTwoThenTimesThree ==
    Spell(<<L("("), L("1"), L("+"), L("2"), L(")"), L("*"), L("3")>>)
AAndBOrC == Spell(<<kA, L("&"), kB, L("|"), kC>>)

\* Whatever compiles evaluates as the reference does: the walk over the
\* compiled sequence of a syntactically valid spec leaves the value of the
\* reference evaluation (an error standing for any error).
CompiledMatchesReference ==
    (filter.status = NoError /\ SyntacticallyValid(filter.spec, var))
        => StackValue(filter, var) = RefEval(filter.spec, var)

\* C1: every syntactically valid infix filter spec compiles to a sequence
\* whose left-to-right evaluation with one operand stack yields the value of
\* the reference evaluation under the precedence table; "1 + 2 * 3" yields 7,
\* "(1 + 2) * 3" yields 9, and "A & B | C" with A false, B and C true yields
\* true.
C1_ParserMatchesReference ==
    /\ (filter # NoFilter /\ SyntacticallyValid(filter.spec, var))
          => /\ filter.status = NoError
             /\ StackValue(filter, var) = RefEval(filter.spec, var)
    /\ filter.spec = OnePlusTwoTimesThree /\ filter # NoFilter
          => StackValue(filter, var) = VNum(RInt(7))
    /\ filter.spec = OnePlusTwoThenTimesThree /\ filter # NoFilter
          => StackValue(filter, var) = VNum(RInt(9))
    /\ (filter.spec = AAndBOrC /\ filter # NoFilter
        /\ var.infoFlags = (kA :> FALSE) @@ (kB :> TRUE) @@ (kC :> TRUE))
          => StackValue(filter, var) = VBool(TRUE)

\* the same, for the filters that compiled
C1_CompiledExamples ==
    /\ CompiledMatchesReference
    /\ filter.spec = OnePlusTwoTimesThree /\ filter.status = NoError
          => StackValue(filter, var) = VNum(RInt(7))
    /\ filter.spec = OnePlusTwoThenTimesThree /\ filter.status = NoError
          => StackValue(filter, var) = VNum(RInt(9))
    /\ (filter.spec = AAndBOrC /\ filter.status = NoError
        /\ var.infoFlags = (kA :> FALSE) @@ (kB :> TRUE) @@ (kC :> TRUE))
          => StackValue(filter, var) = VBool(TRUE)

\* the nesting of the parentheses of a lexeme list, read left to right:
\* never a ")" without an earlier unmatched "(", and none left open
RECURSIVE Balanced(_, _, _)
Balanced(lexs, i, depth) ==
    IF i > Len(lexs) THEN depth = 0
    ELSE IF lexs[i] = <<"(">> THEN Balanced(lexs, i + 1, depth + 1)
    ELSE IF lexs[i] = <<")">> THEN depth > 0 /\ Balanced(lexs, i + 1, depth - 1)
    ELSE Balanced(lexs, i + 1, depth)

\* C2: a filter spec whose parentheses are unbalanced (a ")" with no "(" on
\* the operator stack, or a "(" left on it at the end of the input) fails
\* compilation with the unbalanced-parentheses error and is never evaluated,
\* and no parenthesis token appears in a compiled evaluation sequence.
C2_UnbalancedParenthesesFailCompilation ==
    /\ (filter # NoFilter /\ filter.status # UnrecognizedOperand
        /\ ~Balanced(SpecLexemes(filter.spec), 1, 0))
          => filter.status = UnbalancedParentheses
    /\ filter.status = NoError
          => \A i \in 1..Len(filter.rules) :
                filter.rules[i].type \notin {LEFT_PARENTHESIS, RIGHT_PARENTHESIS}
    /\ call.op \in {"passes", "passesAllele", "removeFilteredGenotypes"}
          => /\ filter.status = NoError
             /\ Balanced(SpecLexemes(filter.spec), 1, 0)

AAndBUnclosed == Spell(<<L("("), kA, L("&"), kB>>)

\* the spec "(A & B" has been compiled, and failed as unbalanced
C2_Witness ==
    /\ filter.spec = AAndBUnclosed
    /\ filter.status = UnbalancedParentheses
    /\ call.op = "VariantFilter"

\* C3: an operand lexeme that is a key of the registry becomes a variable
\* token of the declared type's kind; any other lexeme that reads wholly as a
\* number becomes a Number token; any other fails lexing as an unrecognized
\* operand, at compilation.
C3_OperandClassification ==
    filter # NoFilter =>
        LET lexs == SpecLexemes(filter.spec)
            operands == {i \in 1..Len(lexs) : IsOperandLexeme(lexs[i])}
            known == {i \in operands :
                        lexs[i] \in DOMAIN variables \/ IsDecimal(lexs[i])}
        IN  /\ known # operands <=> filter.status = UnrecognizedOperand
            /\ filter.status # UnrecognizedOperand
                  => \A i \in operands :
                        filter.tokens[i].type =
                            IF lexs[i] \in DOMAIN variables
                            THEN VariableType(variables[lexs[i]])
                            ELSE NUMBER

\* the same on a build whose tellg() answers the position at the end of input
C3_OnPositionAtEof ==
    tellgAtEof = "position" => C3_OperandClassification

----------------------------------------------------------------------------
(* Properties of the Filter Evaluator and of filter application             *)
(* (checked under Spec).                                                    *)

\* C4: no error ends the process: every error, asking for the priority of a
\* token that is neither an operator nor a parenthesis included, comes back
\* to the caller, who can go on compiling filters and evaluating records.
C4_NoErrorEndsTheProcess == running

AFAboveHalf == Spell(<<kAF, L(">"), <<"0", ".", "5">> >>)
PerAlleleAF == << <<"0", ".", "1">>, <<"0", ".", "9">> >>

\* the all-alleles call is true exactly when every allele-indexed evaluation
\* is, and the single-allele call returns the evaluation at that allele
AllAllelesIsConjunction ==
    /\ (call.op = "passes" /\ filter.type = SAMPLE)
          => ((ret.err = NoError /\ ret.value)
                <=> \A i \in 0..(Len(var.alt) - 1) :
                       Verdict(filter, var, call.sample, i)
                           = [err |-> NoError, value |-> TRUE])
    /\ (call.op = "passesAllele" /\ call.allele \in DOMAIN var.altAlleleIndecies)
          => [err |-> ret.err, value |-> ret.value]
                = Verdict(filter, var, call.sample,
                          var.altAlleleIndecies[call.allele])

\* C5: for a sample filter, a record and a sample, the all-alleles call is
\* true iff the filter is true at every alternate-allele index, and the
\* single-allele call returns the verdict at the given index; "AF > 0.5" on
\* AF = ["0.1", "0.9"] fails for all alleles and passes at allele index 1.
C5_AllAllelesAndSingleAllele ==
    /\ AllAllelesIsConjunction
    /\ (filter.spec = AFAboveHalf /\ filter.type = SAMPLE)
          => /\ filter.status = NoError
             /\ \A s \in DOMAIN var.samples :
                   var.samples[s][kAF] = PerAlleleAF
                      => /\ passes(filter, var, s)
                               = [err |-> NoError, value |-> FALSE]
                         /\ Verdict(filter, var, s, 1)
                               = [err |-> NoError, value |-> TRUE]

\* the same, for the filter that compiled
C5_CompiledExample ==
    /\ AllAllelesIsConjunction
    /\ (filter.spec = AFAboveHalf /\ filter.type = SAMPLE
        /\ filter.status = NoError)
          => \A s \in DOMAIN var.samples :
                var.samples[s][kAF] = PerAlleleAF
                   => /\ passes(filter, var, s)
                            = [err |-> NoError, value |-> FALSE]
                      /\ Verdict(filter, var, s, 1)
                            = [err |-> NoError, value |-> TRUE]

AllNull(g) ==
    [i \in 1..Len(SplitGenotype(g, 1, <<>>, <<>>)) |-> <<".">>]

\* what a removeFilteredGenotypes call may do to the record v, giving w
C6_Post(f, v, w, err) ==
    /\ \A field \in DOMAIN v \ {"samples"} : w[field] = v[field]
    /\ DOMAIN w = DOMAIN v
    /\ DOMAIN w.samples = DOMAIN v.samples
    /\ \A s \in DOMAIN v.samples :
          /\ DOMAIN w.samples[s] = DOMAIN v.samples[s]
          /\ \A key \in DOMAIN v.samples[s] \ {kGT} :
                w.samples[s][key] = v.samples[s][key]
          /\ (err = NoError /\ ~passes(f, v, s).value)
                => /\ Len(w.samples[s][kGT]) = 1
                   /\ SplitGenotype(w.samples[s][kGT][1], 1, <<>>, <<>>)
                         = AllNull(v.samples[s][kGT][1])
          /\ (err = NoError /\ passes(f, v, s).value)
                => w.samples[s][kGT] = v.samples[s][kGT]

C7_PassesIsPure ==
    [][/\ call'.op \in {"passes", "passesAllele"} => var' = var
       /\ var' # var => call'.op = "removeFilteredGenotypes"]_vars

\* a sample filter has just failed a sample of a record nobody has changed
C7_Witness ==
    /\ call.op = "passes"
    /\ filter.type = SAMPLE
    /\ ret.err = NoError /\ ~ret.value
    /\ var \in Variants

----------------------------------------------------------------------------
(* Properties of the Genotype Model (checked under SpecGenotype).           *)

GenotypeStringElements == SplitGenotype(genotype, 1, <<>>, <<>>)
ValidGenotype ==
    /\ Len(GenotypeStringElements) \in 1..MaxPloidy
    /\ \A i \in 1..Len(GenotypeStringElements) :
          GenotypeStringElements[i] \in {L("0"), L("1"), L("2"), L(".")}
Ploidy == Cardinality({i \in 1..Len(genotype) : genotype[i] \in {"/", "|"}}) + 1
Occurrences(element) ==
    Cardinality({i \in 1..Len(GenotypeStringElements) :
                    GenotypeStringElements[i] = element})

RECURSIVE CountSum(_, _)
CountSum(g, keys) ==
    IF keys = {} THEN 0
    ELSE LET k == CHOOSE k \in keys : TRUE
         IN  g[k] + CountSum(g, keys \ {k})

\* C8: for a valid genotype of ploidy 1..3 over {0, 1, 2, "."}, the counts
\* of decomposeGenotype sum to the ploidy, each allele is counted under its
\* own index and "." under the null-allele sentinel, and exactly one of
\* isHet and isHom holds.
C8_DecomposeGenotype ==
    (call.op = "decomposeGenotype" /\ ValidGenotype)
       => /\ CountSum(decomposed, DOMAIN decomposed) = Ploidy
          /\ \A k \in 0..2 :
                IF Occurrences(L(CharOrder[k + 4])) > 0
                THEN k \in DOMAIN decomposed
                     /\ decomposed[k] = Occurrences(L(CharOrder[k + 4]))
                ELSE k \notin DOMAIN decomposed
          /\ IF Occurrences(L(".")) > 0
             THEN NULL_ALLELE \in DOMAIN decomposed
                  /\ decomposed[NULL_ALLELE] = Occurrences(L("."))
             ELSE NULL_ALLELE \notin DOMAIN decomposed
          /\ isHet(decomposed) # isHom(decomposed)

\* "./0/0" has been decomposed: one missing allele, two reference alleles
C8_Witness ==
    /\ call.op = "decomposeGenotype"
    /\ genotype = <<".", "/", "0", "/", "0">>
    /\ DOMAIN decomposed = {NULL_ALLELE, 0}
    /\ decomposed[0] = 2
    /\ isHet(decomposed) /\ ~isHom(decomposed)

----------------------------------------------------------------------------
(* Properties of one evaluation (checked under Spec).                       *)

\* the state is the return of one evaluation of the compiled sequence
SingleEvaluation ==
    \/ call.op = "passes" /\ filter.type = RECORD
    \/ call.op = "passesAllele" /\ call.allele \in DOMAIN var.altAlleleIndecies
EvaluationIndex ==
    IF call.op = "passes" THEN INDEX_NONE ELSE var.altAlleleIndecies[call.allele]
Evaluation == Evaluate(filter, var, call.sample, EvaluationIndex)

Kind(token) ==
    CASE token.type \in {NUMBER, NUMERIC_VARIABLE} -> "Numeric"
      [] token.type = STRING_VARIABLE -> "String"
      [] token.type = BOOLEAN_VARIABLE -> "Boolean"
      [] OTHER -> "none"

Arithmetic == {ADD_OPERATOR, SUBTRACT_OPERATOR, MULTIPLY_OPERATOR, DIVIDE_OPERATOR}
Comparison == {EQUAL_OPERATOR, GREATER_THAN_OPERATOR, LESS_THAN_OPERATOR}
Logical == {AND_OPERATOR, OR_OPERATOR}

YieldsOne(kind) ==
    /\ Evaluation.err = NoError
    /\ Len(Evaluation.results) = 1
    /\ Kind(Evaluation.results[1]) = kind

\* the typing of one binary operator applied to two resolved operands, and
\* of NOT applied to one
OperatorTyping ==
    LET rules == filter.rules
        a == Resolve(rules[1], var, call.sample, EvaluationIndex)
        b == Resolve(rules[2], var, call.sample, EvaluationIndex)
        op == rules[Len(rules)].type
    IN  /\ (/\ SingleEvaluation /\ Len(rules) = 3
            /\ Kind(rules[1]) # "none" /\ Kind(rules[2]) # "none"
            /\ a.err = NoError /\ b.err = NoError)
              => CASE op \in Arithmetic ->
                        IF Kind(a.tok) = "Numeric" /\ Kind(b.tok) = "Numeric"
                        THEN IF op = DIVIDE_OPERATOR /\ b.tok.number.n = 0
                             THEN ret.err = DivideByZero
                             ELSE YieldsOne("Numeric")
                        ELSE ret.err = TypeMismatch
                   [] op \in Comparison ->
                        IF Kind(a.tok) = Kind(b.tok)
                           /\ Kind(a.tok) \in {"Numeric", "String"}
                        THEN YieldsOne("Boolean") /\ ret.err = NoError
                        ELSE ret.err = TypeMismatch
                   [] op \in Logical ->
                        IF Kind(a.tok) = "Boolean" /\ Kind(b.tok) = "Boolean"
                        THEN YieldsOne("Boolean") /\ ret.err = NoError
                        ELSE ret.err = TypeMismatch
                   [] OTHER -> TRUE
        /\ (/\ SingleEvaluation /\ Len(rules) = 2
            /\ Kind(rules[1]) # "none" /\ op = NOT_OPERATOR
            /\ a.err = NoError)
              => IF Kind(a.tok) = "Boolean"
                 THEN /\ YieldsOne("Boolean")
                      /\ ret.err = NoError /\ ret.value = ~a.tok.state
                 ELSE ret.err = TypeMismatch

DPAboveTen == Spell(<<kDP, L(">"), <<"1", "0">> >>)

\* C9: the result of an operator is typed by the operator, every other
\* combination of operand kinds is a type mismatch without a verdict, and
\* "DP > 10" compiles, passes for DP = "15" and fails for DP = "5".
C9_OperatorTyping ==
    /\ OperatorTyping
    /\ (filter.spec = DPAboveTen /\ filter.type = RECORD)
          => /\ filter.status = NoError
             /\ (var.info[kDP] = << <<"1", "5">> >>)
                   => passes(filter, var, NoSample) = [err |-> NoError, value |-> TRUE]
             /\ (var.info[kDP] = << <<"5">> >>)
                   => passes(filter, var, NoSample) = [err |-> NoError, value |-> FALSE]

\* the same, for the filter that compiled
C9_CompiledExample ==
    /\ OperatorTyping
    /\ (filter.spec = DPAboveTen /\ filter.type = RECORD
        /\ filter.status = NoError)
          => /\ (var.info[kDP] = << <<"1", "5">> >>)
                   => passes(filter, var, NoSample) = [err |-> NoError, value |-> TRUE]
             /\ (var.info[kDP] = << <<"5">> >>)
                   => passes(filter, var, NoSample) = [err |-> NoError, value |-> FALSE]

\* the first position of the sequence whose operator finds too few operands
\* on a stack of the given depth, or 0
RECURSIVE Underflow(_, _, _)
Underflow(rules, i, depth) ==
    IF i > Len(rules) THEN 0
    ELSE IF Kind(rules[i]) # "none" THEN Underflow(rules, i + 1, depth + 1)
    ELSE IF rules[i].type = NOT_OPERATOR
         THEN IF depth < 1 THEN i ELSE Underflow(rules, i + 1, depth)
    ELSE IF depth < 2 THEN i ELSE Underflow(rules, i + 1, depth - 1)

\* C10: a verdict is returned only when the stack ends with exactly one
\* operand and that operand is Boolean, and the verdict is its value; any
\* other final stack, or an operator that finds too few operands, is a
\* malformed-filter error.
C10_VerdictFromSingleBoolean ==
    SingleEvaluation =>
       LET u == Underflow(filter.rules, 1, 0)
       IN  /\ (ret.err = NoError)
                 => /\ YieldsOne("Boolean")
                    /\ ret.value = Evaluation.results[1].state
           /\ (Evaluation.err = NoError /\ ~YieldsOne("Boolean"))
                 => ret.err = MalformedFilter
           /\ (u > 0 /\ EvalRules(SubSeq(filter.rules, 1, u - 1), 1, <<>>, var,
                                  call.sample, EvaluationIndex).err = NoError)
                 => ret.err = MalformedFilter

\* an evaluation has ended with two operands on the stack and was refused
C10_Witness ==
    /\ SingleEvaluation
    /\ Evaluation.err = NoError
    /\ Len(Evaluation.results) = 2
    /\ ret.err = MalformedFilter

====
